---- MODULE Spec2Model ----
(***************************************************************************)
(* Model of the finance tracker of src/App.tsx: the transaction collection *)
(* (React state `transactions`), the period selector (`timeRange`), and    *)
(* the memoized derived values computed from them (filteredTransactions,   *)
(* summary, topExpenses, balanceEvolutionData, chartData, monthlyData),    *)
(* the copy of the collection kept in localStorage, and the insight        *)
(* requests sent through getFinancialInsights.                             *)
(*                                                                         *)
(* Amounts are exact integers (currency units); quotients (margin,         *)
(* percent) are exact fractions [num, den]. Binary floating-point rounding *)
(* of the JavaScript numbers is not modelled.                              *)
(*                                                                         *)
(* A transaction's `date` is the "YYYY-MM-DD" string of the date input,    *)
(* modelled by its three fields [y, m, d]. `new Date(t.date)` reads such a *)
(* string as midnight UTC, while getFullYear/getMonth/toLocaleDateString   *)
(* answer in the local time zone of the browser: the zone offset `tz` is   *)
(* an input of the environment, fixed for a run.                           *)
(***************************************************************************)
EXTENDS Integers, Sequences, FiniteSets, TLC

VARIABLES
    transactions,   \* useState<Transaction[]>
    timeRange,      \* useState<TimeRange>
    now,            \* the local current date
    tz,             \* the zone offset of the browser
    nextId,         \* the next value of crypto.randomUUID()
    app,            \* "unmounted", "running", or "crashed" (render threw)
    storage,        \* localStorage item 'porto_transactions'
    isAnalyzing,    \* useState(false)
    aiInsight,      \* useState<string | null>(null)
    pending,        \* calls of getFinancialInsights awaiting the service
    settled         \* how the last settled getFinancialInsights promise ended

vars == <<transactions, timeRange, now, tz, nextId, app, storage,
          isAnalyzing, aiInsight, pending, settled>>

\* the state of the insight request flow
insightVars == <<isAnalyzing, aiInsight, pending, settled>>

-----------------------------------------------------------------------------
(* Bounds of the model *)

\* crypto.randomUUID() is modelled by a counter; at most MaxId adds per run
MaxId == 4

\* at most MaxEntries adds in a run that follows the insight requests
MaxEntries == 2

\* at most MaxPending calls of the text-generation service awaited at once
MaxPending == 2

-----------------------------------------------------------------------------
(* Value domains *)

INCOME == "Income"
EXPENSE == "Expense"
TransactionTypes == {INCOME, EXPENSE}

Categories == {"Rental", "Cleaning", "Maintenance", "Utilities", "Taxes", "Others"}

TimeRanges == {"monthly", "semiannual", "annual", "all"}

Date(y, m, d) == [y |-> y, m |-> m, d |-> d]

\* Browser zone offsets from UTC in hours: America/Recife (UTC-3) and UTC
TzOffsets == {-3, 0}

\* Local current dates (`new Date()`): one in each half of 2024
Nows == {Date(2024, 3, 15), Date(2024, 7, 20)}

\* Form submissions offered to handleAddTransaction: formType, formCategory,
\* the text typed in the amount input, formDate, formDesc and formGuest
FormWith(type, category, amount, date, desc, guest) ==
    [type |-> type, category |-> category, amount |-> amount, date |-> date,
     desc |-> desc, guest |-> guest]

Form(type, category, amount, date) ==
    FormWith(type, category, amount, date, "", "")

\* the second form has a guest name typed before the switch to Expense
ValidForms ==
    { FormWith(INCOME,  "Rental",   "1000", Date(2024, 3, 1), "Reserva", "Ana Souza"),
      FormWith(EXPENSE, "Cleaning", "200",  Date(2024, 3, 15), "", "Ana Souza"),
      Form(EXPENSE, "Maintenance", "200",  Date(2023, 3, 1)),
      Form(INCOME,  "Cleaning",    "500",  Date(2023, 5, 10)),
      Form(EXPENSE, "Utilities",   "300",  Date(2024, 7, 1)),
      Form(EXPENSE, "Taxes",       "500",  Date(2025, 1, 1)) }

\* amount left empty, typed as a text that is not a number, zero, negative
InvalidForms ==
    { Form(EXPENSE, "Others", "",    Date(2024, 3, 15)),
      Form(EXPENSE, "Others", "abc", Date(2024, 3, 15)),
      Form(EXPENSE, "Others", "0",   Date(2024, 3, 15)),
      Form(INCOME,  "Rental", "-50", Date(2024, 3, 15)) }

Forms == ValidForms \cup InvalidForms

\* the texts that are valid floating-point numbers
NumericTexts == {"0", "-50", "200", "300", "500", "1000"}

\* <input type="number">: its value is the text typed when that is a valid
\* floating-point number, and the empty string otherwise
NumberInputValue(typed) == IF typed \in NumericTexts THEN typed ELSE ""

\* parseFloat on the texts the number input can hold; "" parses to NaN
\* (never compared: `!formAmount` is evaluated first and short-circuits)
NaN == "NaN"
parseFloat(s) ==
    CASE s = ""     -> NaN
      [] s = "0"    -> 0
      [] s = "-50"  -> -50
      [] s = "200"  -> 200
      [] s = "300"  -> 300
      [] s = "500"  -> 500
      [] s = "1000" -> 1000

-----------------------------------------------------------------------------
(* Dates *)

IsLeap(y) == (y % 4 = 0 /\ y % 100 # 0) \/ y % 400 = 0

DaysInMonth(y, m) ==
    IF m = 2 THEN (IF IsLeap(y) THEN 29 ELSE 28)
    ELSE IF m \in {4, 6, 9, 11} THEN 30 ELSE 31

PrevDay(dt) ==
    IF dt.d > 1 THEN Date(dt.y, dt.m, dt.d - 1)
    ELSE IF dt.m > 1 THEN Date(dt.y, dt.m - 1, DaysInMonth(dt.y, dt.m - 1))
    ELSE Date(dt.y - 1, 12, 31)

\* new Date("YYYY-MM-DD"): the instant is midnight UTC of that day. Its
\* local calendar fields are those of the previous day when the zone is
\* behind UTC, of the same day otherwise.
LocalFields(dt, zone) == IF zone < 0 THEN PrevDay(dt) ELSE dt

\* Date.prototype.getTime(): only differences of two values are used (sort
\* comparators), so a day number that preserves the order stands for it
getTime(dt) == dt.y * 372 + (dt.m - 1) * 31 + dt.d

\* the value of the date input after it is cleared: the empty string.
\* new Date('') is an Invalid Date: getTime() and the field getters are NaN
BlankDate == Date(0, 0, 0)
IsInvalidDate(dt) == dt = BlankDate

getFullYear(dt, zone) == LocalFields(dt, zone).y

\* zero-based month
getMonth(dt, zone) == LocalFields(dt, zone).m - 1

\* toLocaleDateString('pt-BR', {day:'2-digit', month:'2-digit'}) = "dd/MM"
DayMonthLabel(dt, zone) ==
    <<LocalFields(dt, zone).d, LocalFields(dt, zone).m>>

\* toLocaleDateString('pt-BR', {month:'short'}) = the month's short name
MonthLabel(dt, zone) == <<LocalFields(dt, zone).m>>

-----------------------------------------------------------------------------
(* Array helpers *)

RECURSIVE SelectSeqBy(_, _)
\* Array.prototype.filter on the type field
SelectSeqBy(s, type) ==
    IF s = <<>> THEN <<>>
    ELSE IF Head(s).type = type
         THEN <<Head(s)>> \o SelectSeqBy(Tail(s), type)
         ELSE SelectSeqBy(Tail(s), type)

RECURSIVE SumAmounts(_)
\* reduce((acc, t) => acc + t.amount, 0)
SumAmounts(s) ==
    IF s = <<>> THEN 0 ELSE SumAmounts(SubSeq(s, 1, Len(s) - 1)) + s[Len(s)].amount

\* comparator of the two date sorts: dir = -1 is b - a (descending),
\* dir = 1 is a - b (ascending). A difference with the NaN of an Invalid
\* Date is NaN, which sort takes as +0
CompareDates(a, b, dir) ==
    IF IsInvalidDate(a.date) \/ IsInvalidDate(b.date) THEN 0
    ELSE dir * (getTime(a.date) - getTime(b.date))

RECURSIVE InsertSortedUnstable(_, _, _)
\* an insertion that puts x before the elements that compare equal to it
InsertSortedUnstable(x, s, dir) ==
    IF s = <<>> THEN <<x>>
    ELSE IF CompareDates(Head(s), x, dir) < 0
         THEN <<Head(s)>> \o InsertSortedUnstable(x, Tail(s), dir)
         ELSE <<x>> \o s

RECURSIVE InsertSorted(_, _, _)
\* x goes after every element that does not compare greater than it
InsertSorted(x, s, dir) ==
    IF s = <<>> THEN <<x>>
    ELSE IF CompareDates(Head(s), x, dir) <= 0
         THEN <<Head(s)>> \o InsertSorted(x, Tail(s), dir)
         ELSE <<x>> \o s

RECURSIVE SortByDate(_, _)
\* Array.prototype.sort with a date comparator: a stable sort
SortByDate(s, dir) ==
    IF s = <<>> THEN <<>>
    ELSE InsertSorted(s[Len(s)], SortByDate(SubSeq(s, 1, Len(s) - 1), dir), dir)

\* A JavaScript object with string keys, as the sequence of its entries in
\* insertion order (Object.entries): obj[key] = value
HasKey(obj, key) == \E i \in 1..Len(obj) : obj[i].name = key

GetOr0(obj, key) ==
    IF HasKey(obj, key)
    THEN (CHOOSE e \in {obj[i] : i \in 1..Len(obj)} : e.name = key).value
    ELSE 0

SetKey(obj, key, value) ==
    IF HasKey(obj, key)
    THEN [i \in 1..Len(obj) |->
            IF obj[i].name = key THEN [name |-> key, value |-> value] ELSE obj[i]]
    ELSE Append(obj, [name |-> key, value |-> value])

RECURSIVE InsertByValueDesc(_, _)
InsertByValueDesc(x, s) ==
    IF s = <<>> THEN <<x>>
    ELSE IF Head(s).value - x.value >= 0
         THEN <<Head(s)>> \o InsertByValueDesc(x, Tail(s))
         ELSE <<x>> \o s

RECURSIVE SortByValueDesc(_)
\* .sort((a, b) => b.value - a.value): stable
SortByValueDesc(s) ==
    IF s = <<>> THEN <<>>
    ELSE InsertByValueDesc(s[Len(s)], SortByValueDesc(SubSeq(s, 1, Len(s) - 1)))

\* the quotient n / d of two numbers, kept as an exact fraction
Frac(n, d) == [num |-> n, den |-> d]

-----------------------------------------------------------------------------
(* Derived values (useMemo) *)

\* the predicate of transactions.filter(...) in filteredTransactions
MatchesPeriod(t, range, n, zone) ==
    IF range = "all" THEN TRUE
    ELSE LET \* NaN === year is false
             isSameYear == /\ ~IsInvalidDate(t.date)
                           /\ getFullYear(t.date, zone) = n.y
         IN  IF range = "monthly"
             THEN isSameYear /\ getMonth(t.date, zone) = n.m - 1
             ELSE IF range = "semiannual"
             THEN LET currentSemester == IF n.m - 1 < 6 THEN 0 ELSE 1
                      tSemester == IF getMonth(t.date, zone) < 6 THEN 0 ELSE 1
                  IN  isSameYear /\ tSemester = currentSemester
             ELSE IF range = "annual" THEN isSameYear
             ELSE TRUE

RECURSIVE FilterPeriod(_, _, _, _)
FilterPeriod(txs, range, n, zone) ==
    IF txs = <<>> THEN <<>>
    ELSE IF MatchesPeriod(Head(txs), range, n, zone)
         THEN <<Head(txs)>> \o FilterPeriod(Tail(txs), range, n, zone)
         ELSE FilterPeriod(Tail(txs), range, n, zone)

PeriodFilter(txs, range, n, zone) ==
    SortByDate(FilterPeriod(txs, range, n, zone), -1)

\* Summary with the balance taken as income + expenses
SummaryAddsExpenses(ft) ==
    LET income   == SumAmounts(SelectSeqBy(ft, INCOME))
        expenses == SumAmounts(SelectSeqBy(ft, EXPENSE))
        balance  == income + expenses
        margin   == IF income > 0 THEN Frac(balance * 100, income) ELSE Frac(0, 1)
    IN  [income |-> income, expenses |-> expenses,
         balance |-> balance, margin |-> margin]

\* Summary with the margin taken as the share of the expenses in the income
SummaryMarginOfExpenses(ft) ==
    LET income   == SumAmounts(SelectSeqBy(ft, INCOME))
        expenses == SumAmounts(SelectSeqBy(ft, EXPENSE))
        balance  == income - expenses
        margin   == IF income > 0 THEN Frac(expenses * 100, income) ELSE Frac(0, 1)
    IN  [income |-> income, expenses |-> expenses,
         balance |-> balance, margin |-> margin]

\* Summary without the guard on income in the margin
SummaryUnguardedMargin(ft) ==
    LET income   == SumAmounts(SelectSeqBy(ft, INCOME))
        expenses == SumAmounts(SelectSeqBy(ft, EXPENSE))
        balance  == income - expenses
        margin   == Frac(balance * 100, income)
    IN  [income |-> income, expenses |-> expenses,
         balance |-> balance, margin |-> margin]

Summary(ft) ==
    LET income   == SumAmounts(SelectSeqBy(ft, INCOME))
        expenses == SumAmounts(SelectSeqBy(ft, EXPENSE))
        balance  == income - expenses
        margin   == IF income > 0 THEN Frac(balance * 100, income) ELSE Frac(0, 1)
    IN  [income |-> income, expenses |-> expenses,
         balance |-> balance, margin |-> margin]

\* summary.expenses > 0 ? (value / summary.expenses) * 100 : 0
CategoryPercent(value, expenses) ==
    IF expenses > 0 THEN Frac(value * 100, expenses) ELSE Frac(0, 1)

RECURSIVE CategoryTotalsOverwrite(_)
\* a grouping that stores the last amount of a category instead of adding it
CategoryTotalsOverwrite(exps) ==
    IF exps = <<>> THEN <<>>
    ELSE LET acc == CategoryTotalsOverwrite(SubSeq(exps, 1, Len(exps) - 1))
             t   == exps[Len(exps)]
         IN  SetKey(acc, t.category, t.amount)

RECURSIVE CategoryTotals(_)
\* expenses.forEach(t => categories[t.category] = (categories[t.category] || 0) + t.amount)
CategoryTotals(exps) ==
    IF exps = <<>> THEN <<>>
    ELSE LET acc == CategoryTotals(SubSeq(exps, 1, Len(exps) - 1))
             t   == exps[Len(exps)]
         IN  SetKey(acc, t.category, GetOr0(acc, t.category) + t.amount)

\* a breakdown that groups the transactions of both types
ChartDataAllTypes(ft) == SortByValueDesc(CategoryTotals(ft))

ChartData(ft) == SortByValueDesc(CategoryTotals(SelectSeqBy(ft, EXPENSE)))

\* the ranking cut after two entries
TopExpensesTwo(ft) ==
    LET entries == CategoryTotals(SelectSeqBy(ft, EXPENSE))
        total   == Summary(ft).expenses
        mapped  == [i \in 1..Len(entries) |->
                      [name    |-> entries[i].name,
                       value   |-> entries[i].value,
                       percent |-> CategoryPercent(entries[i].value, total)]]
        sorted  == SortByValueDesc(mapped)
    IN  SubSeq(sorted, 1, IF Len(sorted) < 2 THEN Len(sorted) ELSE 2)

TopExpenses(ft) ==
    LET entries == CategoryTotals(SelectSeqBy(ft, EXPENSE))
        total   == Summary(ft).expenses
        mapped  == [i \in 1..Len(entries) |->
                      [name    |-> entries[i].name,
                       value   |-> entries[i].value,
                       percent |-> CategoryPercent(entries[i].value, total)]]
        sorted  == SortByValueDesc(mapped)
    IN  SubSeq(sorted, 1, IF Len(sorted) < 3 THEN Len(sorted) ELSE 3)

Signed(t) == IF t.type = INCOME THEN t.amount ELSE 0 - t.amount

RECURSIVE BalancePoints(_, _)
\* sorted.forEach(t => { currentBalance += val; points[dateKey] = currentBalance })
\* the result carries the running balance next to the points object
BalancePoints(sorted, zone) ==
    IF sorted = <<>> THEN [currentBalance |-> 0, points |-> <<>>]
    ELSE LET acc == BalancePoints(SubSeq(sorted, 1, Len(sorted) - 1), zone)
             t   == sorted[Len(sorted)]
             currentBalance == acc.currentBalance + Signed(t)
         IN  [currentBalance |-> currentBalance,
              points |-> SetKey(acc.points, DayMonthLabel(t.date, zone), currentBalance)]

BalanceEvolutionData(ft, zone) == BalancePoints(SortByDate(ft, 1), zone).points

RECURSIVE MonthBucketsLastFirst(_, _, _)
\* a grouping that walks the filtered list from its last element to its first
MonthBucketsLastFirst(ft, range, zone) ==
    IF ft = <<>> THEN <<>>
    ELSE LET months == MonthBucketsLastFirst(Tail(ft), range, zone)
             t      == Head(ft)
             key    == IF range = "monthly"
                       THEN DayMonthLabel(t.date, zone)
                       ELSE MonthLabel(t.date, zone)
             old    == IF HasKey(months, key)
                       THEN CHOOSE e \in {months[i] : i \in 1..Len(months)} : e.name = key
                       ELSE [name |-> key, income |-> 0, expense |-> 0]
             new    == IF t.type = INCOME
                       THEN [old EXCEPT !.income = old.income + t.amount]
                       ELSE [old EXCEPT !.expense = old.expense + t.amount]
         IN  IF HasKey(months, key)
             THEN [i \in 1..Len(months) |->
                     IF months[i].name = key THEN new ELSE months[i]]
             ELSE Append(months, new)

RECURSIVE MonthBuckets(_, _, _)
\* filteredTransactions.forEach(t => { ... months[key].income/expense += t.amount })
MonthBuckets(ft, range, zone) ==
    IF ft = <<>> THEN <<>>
    ELSE LET months == MonthBuckets(SubSeq(ft, 1, Len(ft) - 1), range, zone)
             t      == ft[Len(ft)]
             key    == IF range = "monthly"
                       THEN DayMonthLabel(t.date, zone)
                       ELSE MonthLabel(t.date, zone)
             old    == IF HasKey(months, key)
                       THEN CHOOSE e \in {months[i] : i \in 1..Len(months)} : e.name = key
                       ELSE [name |-> key, income |-> 0, expense |-> 0]
             new    == IF t.type = INCOME
                       THEN [old EXCEPT !.income = old.income + t.amount]
                       ELSE [old EXCEPT !.expense = old.expense + t.amount]
         IN  IF HasKey(months, key)
             THEN [i \in 1..Len(months) |->
                     IF months[i].name = key THEN new ELSE months[i]]
             ELSE Append(months, new)

MonthlyData(ft, range, zone) ==
    LET months == MonthBuckets(ft, range, zone)
    IN  IF Len(months) = 0 THEN <<>> ELSE months

filteredTransactions == PeriodFilter(transactions, timeRange, now, tz)
monthlyData == MonthlyData(filteredTransactions, timeRange, tz)
summary == Summary(filteredTransactions)
topExpenses == TopExpenses(filteredTransactions)
balanceEvolutionData == BalanceEvolutionData(filteredTransactions, tz)
chartData == ChartData(filteredTransactions)

\* the percent column of the expense breakdown ("Detalhamento de Gastos"),
\* before its formatting: chartData.map(item => ... percent ...)
CategoryPercents(cd, expenses) ==
    [i \in 1..Len(cd) |-> CategoryPercent(cd[i].value, expenses)]

categoryPercents == CategoryPercents(chartData, summary.expenses)

-----------------------------------------------------------------------------
(* Operations *)

\* an optional property of an object: absent/undefined, or holding v
Undefined == <<>>
Some(v) == <<v>>

\* JSON.stringify of one transaction: a property whose value is undefined
\* is left out of the text
JSONstringifyObject(t) ==
    IF t.guestName = Undefined
    THEN [id |-> t.id, type |-> t.type, category |-> t.category,
          amount |-> t.amount, date |-> t.date, description |-> t.description,
          isPaid |-> t.isPaid]
    ELSE [id |-> t.id, type |-> t.type, category |-> t.category,
          amount |-> t.amount, date |-> t.date, description |-> t.description,
          guestName |-> t.guestName[1], isPaid |-> t.isPaid]

\* what localStorage.getItem returns: null, or a text that is empty, a
\* JSON array, or not JSON
StorageValue(kind, value) == [kind |-> kind, value |-> value]
StorageNull == StorageValue("null", <<>>)
StorageEmptyText == StorageValue("empty", <<>>)
StorageMalformed == StorageValue("malformed", <<>>)

JSONstringify(txs) ==
    StorageValue("array", [i \in 1..Len(txs) |-> JSONstringifyObject(txs[i])])

\* the object JSON.parse builds from one element of the array, read through
\* the properties of Transaction: a property left out reads as undefined
JSONparseObject(o) ==
    [id |-> o.id, type |-> o.type, category |-> o.category,
     amount |-> o.amount, date |-> o.date, description |-> o.description,
     guestName |-> IF "guestName" \in DOMAIN o THEN Some(o.guestName) ELSE Undefined,
     isPaid |-> o.isPaid]

JSONparse(text) == [i \in 1..Len(text.value) |-> JSONparseObject(text.value[i])]

\* the persist effect written for the filtered list instead of the collection
PersistFiltered(txs) == JSONstringify(PeriodFilter(txs, timeRange, now, tz))

\* useEffect(() => localStorage.setItem(..., JSON.stringify(transactions)))
Persist(txs) == JSONstringify(txs)

NullInsight == [kind |-> "null"]

\* no getFinancialInsights promise has settled yet
NotSettled == [state |-> "none"]

\* the state after the first construction of the application, with nothing
\* in localStorage: the initializers of useState and the persist effect
Init ==
    /\ transactions = <<>>
    /\ timeRange = "monthly"
    /\ now \in Nows
    /\ tz \in TzOffsets
    /\ nextId = 1
    /\ app = "running"
    /\ storage = Persist(<<>>)
    /\ isAnalyzing = FALSE
    /\ aiInsight = NullInsight
    /\ pending = <<>>
    /\ settled = NotSettled

\* the useState initializers and the first run of the persist effect, on
\* the item found in localStorage. JSON.parse throws on a text that is not
\* JSON: the initializer throws and nothing is rendered.
Startup ==
    /\ IF storage.kind = "malformed"
       THEN /\ app' = "crashed"
            /\ transactions' = <<>>
            /\ UNCHANGED storage
       ELSE LET saved  == storage
                loaded == IF saved.kind = "array" THEN JSONparse(saved) ELSE <<>>
            IN  /\ app' = "running"
                /\ transactions' = loaded
                /\ storage' = Persist(loaded)
    /\ timeRange' = "monthly"
    /\ isAnalyzing' = FALSE
    /\ aiInsight' = NullInsight
    /\ pending' = <<>>
    /\ settled' = NotSettled
    /\ UNCHANGED <<now, tz, nextId>>

\* the page is opened
mount ==
    /\ app = "unmounted"
    /\ Startup

\* the page is reloaded: the state is rebuilt from localStorage
reload ==
    /\ app # "unmounted"
    /\ Startup

\* the id of a new transaction taken from the size of the collection
NewIdFromLength == Len(transactions) + 1

\* crypto.randomUUID(): a value no transaction has had
NewId == nextId

\* a validation that tests only for the empty text
RejectsAmountEmptyOnly(amount) == amount = ""

\* a validation that rejects only the negative amounts
RejectsAmountNegativeOnly(amount) == amount = "" \/ parseFloat(amount) < 0

\* !formAmount || parseFloat(formAmount) <= 0
RejectsAmount(amount) == amount = "" \/ parseFloat(amount) <= 0

\* formAmount: the value of the amount input holding the text typed
formAmount(f) == NumberInputValue(f.amount)

\* a newTransaction that takes guestName from the form whatever the type
NewTransactionKeepsGuest(id, f) ==
    [id |-> id, type |-> f.type, category |-> f.category,
     amount |-> parseFloat(formAmount(f)), date |-> f.date,
     description |-> f.desc, guestName |-> Some(f.guest), isPaid |-> TRUE]

\* the object literal newTransaction
NewTransaction(id, f) ==
    [id |-> id, type |-> f.type, category |-> f.category,
     amount |-> parseFloat(formAmount(f)), date |-> f.date,
     description |-> f.desc,
     guestName |-> IF f.type = INCOME THEN Some(f.guest) ELSE Undefined,
     isPaid |-> TRUE]

\* an add that puts the new transaction after the others: [...prev, new]
handleAddTransactionAppends(f) ==
    /\ app = "running"
    /\ nextId <= MaxId
    /\ IF RejectsAmount(formAmount(f))
       THEN UNCHANGED <<transactions, nextId, storage>>
       ELSE /\ transactions' = Append(transactions, NewTransaction(NewId, f))
            /\ nextId' = nextId + 1
            /\ storage' = Persist(transactions')
    /\ UNCHANGED <<timeRange, now, tz, app, insightVars>>

\* handleAddTransaction with the form holding f
handleAddTransaction(f) ==
    /\ app = "running"
    /\ nextId <= MaxId
    /\ IF RejectsAmount(formAmount(f))
       THEN UNCHANGED <<transactions, nextId, storage>>
       ELSE /\ transactions' = <<NewTransaction(NewId, f)>> \o transactions
            /\ nextId' = nextId + 1
            /\ storage' = Persist(transactions')
    /\ UNCHANGED <<timeRange, now, tz, app, insightVars>>

RECURSIVE RemoveIdAndOlder(_, _)
\* a removal that also drops what follows the transaction removed
RemoveIdAndOlder(txs, id) ==
    IF txs = <<>> THEN <<>>
    ELSE IF Head(txs).id # id
         THEN <<Head(txs)>> \o RemoveIdAndOlder(Tail(txs), id)
         ELSE <<>>

RECURSIVE RemoveId(_, _)
\* prev.filter(t => t.id !== id)
RemoveId(txs, id) ==
    IF txs = <<>> THEN <<>>
    ELSE IF Head(txs).id # id
         THEN <<Head(txs)>> \o RemoveId(Tail(txs), id)
         ELSE RemoveId(Tail(txs), id)

\* a delete that does not wait for the answer given to confirm()
deleteTransactionUnconfirmed(id, confirmed) ==
    /\ app = "running"
    /\ \E i \in 1..Len(transactions) : transactions[i].id = id
    /\ transactions' = RemoveId(transactions, id)
    /\ storage' = Persist(transactions')
    /\ UNCHANGED <<timeRange, now, tz, nextId, app, insightVars>>

\* deleteTransaction(id) with the answer given to confirm()
deleteTransaction(id, confirmed) ==
    /\ app = "running"
    /\ \E i \in 1..Len(transactions) : transactions[i].id = id
    /\ IF confirmed
       THEN /\ transactions' = RemoveId(transactions, id)
            /\ storage' = Persist(transactions')
       ELSE UNCHANGED <<transactions, storage>>
    /\ UNCHANGED <<timeRange, now, tz, nextId, app, insightVars>>

\* the time filter tabs: monthly, semiannual, annual
TimeTabs == {"monthly", "semiannual", "annual"}

setTimeRange(range) ==
    /\ app = "running"
    /\ timeRange' = range
    /\ UNCHANGED <<transactions, now, tz, nextId, app, storage, insightVars>>

\* "Ver todo o histórico", the button of the empty history list
showAllHistory ==
    /\ Len(filteredTransactions) = 0
    /\ setTimeRange("all")

\* JavaScript values a failed call can throw: undefined, a string, or an
\* object whose `message` property holds a value
JsUndefined == [t |-> "undefined"]
JsString(chars) == [t |-> "string", v |-> chars]
JsNumber(n) == [t |-> "number", v |-> n]
JsObject(message) == [t |-> "object", message |-> message]

\* String.prototype.includes on texts written as sequences of characters
Includes(text, pattern) ==
    \E i \in 0..(Len(text) - Len(pattern)) :
        SubSeq(text, i + 1, i + Len(pattern)) = pattern

\* the texts getFinancialInsights returns
InsufficientData == [kind |-> "insufficient"]
Overloaded == [kind |-> "overloaded"]
Unavailable(detail) == [kind |-> "unavailable", detail |-> detail]
\* the text the service generates: it answers the prompt of its request
Generated(text, request) ==
    [kind |-> "generated", text |-> text, prompt |-> request]
Desconhecido == <<"D", "e", "s", "c", "o", "n", "h", "e", "c", "i", "d", "o">>

\* how a stretch of getFinancialInsights ends
Return(value) == [kind |-> "return", value |-> value]
Call(request) == [kind |-> "call", request |-> request]
Throw == [kind |-> "throw"]

\* what the service does with a call: a text, or a failure that throws
\* `error`, with the HTTP status the service answered (0: no answer)
TextOutcome == [kind |-> "text", text |-> "report"]
Failure(status, error) == [kind |-> "throw", status |-> status, error |-> error]

ServiceOutcomes ==
    { TextOutcome,
      \* [429 Too Many Requests]
      Failure(429, JsObject(JsString(<<"[", "4", "2", "9", "]">>))),
      \* [400 Bad Request] The input token count (104291) exceeds the maximum
      Failure(400, JsObject(JsString(<<"[", "4", "0", "0", "]", " ",
                                       "1", "0", "4", "2", "9", "1">>))),
      \* TypeError: Failed to fetch
      Failure(0, JsObject(JsString(<<"f", "e", "t", "c", "h">>))),
      \* response.text() throws on a response it cannot read
      Failure(200, JsObject(JsString(<<"p", "a", "r", "s", "e">>))),
      \* new Error()
      Failure(0, JsObject(JsString(<<>>))),
      \* a rejection with an object whose message is not a string
      Failure(500, JsObject(JsNumber(500))),
      \* a rejection with a string, which has no message property
      Failure(0, JsString(<<"t", "i", "m", "e", "o", "u", "t">>)),
      \* a rejection with no value
      Failure(0, JsUndefined) }

\* the catch block of getFinancialInsights on the value thrown
catchError(error) ==
    IF error.t = "undefined"
    THEN Throw          \* TypeError: cannot read properties of undefined
    ELSE LET message == IF error.t = "object" THEN error.message ELSE JsUndefined
         IN  IF message.t = "undefined"
             THEN Return(Unavailable(Desconhecido))
             ELSE IF message.t # "string"
             THEN Throw \* TypeError: error.message.includes is not a function
             ELSE IF Includes(message.v, <<"4", "2", "9">>)
             THEN Return(Overloaded)
             ELSE Return(Unavailable(IF message.v = <<>> THEN Desconhecido
                                     ELSE message.v))

\* getFinancialInsights without the test of the empty sequence
getFinancialInsightsAlwaysCalls(txs, period) ==
    Call([model |-> "gemini-2.0-flash", period |-> period])

\* getFinancialInsights up to its first await: the text for an empty
\* sequence, or the call of model.generateContent
getFinancialInsights(txs, period) ==
    IF Len(txs) = 0 THEN Return(InsufficientData)
    ELSE Call([model |-> "gemini-2.0-flash", period |-> period])

\* getFinancialInsights from the await on: the try block and the catch block
getFinancialInsightsSettles(request, outcome) ==
    IF outcome.kind = "text" THEN Return(Generated(outcome.text, request))
    ELSE catchError(outcome.error)

rangeLabels ==
    [monthly |-> "Mes Atual", semiannual |-> "Semestre Atual",
     annual |-> "Ano Atual", all |-> "Todo o Periodo"]

\* a click on the insights button: fetchAiInsights up to the point where it
\* waits for the service, or to its end when no call is made
fetchAiInsights ==
    /\ app = "running"
    /\ LET r == getFinancialInsights(filteredTransactions, rangeLabels[timeRange])
       IN  IF r.kind = "return"
           THEN /\ aiInsight' = r.value
                /\ isAnalyzing' = FALSE
                /\ settled' = [state |-> "fulfilled", outcome |-> [kind |-> "none"],
                               value |-> r.value]
                /\ UNCHANGED pending
           ELSE /\ Len(pending) < MaxPending
                /\ isAnalyzing' = TRUE
                /\ pending' = Append(pending, r.request)
                /\ UNCHANGED <<aiInsight, settled>>
    /\ UNCHANGED <<transactions, timeRange, now, tz, nextId, app, storage>>

\* the service answers the i-th awaited call: the rest of
\* getFinancialInsights, then the rest of fetchAiInsights, which has no
\* handler for a rejection
generateContentSettles(i, outcome) ==
    /\ app = "running"
    /\ i \in 1..Len(pending)
    /\ pending' = SubSeq(pending, 1, i - 1) \o SubSeq(pending, i + 1, Len(pending))
    /\ LET r == getFinancialInsightsSettles(pending[i], outcome)
       IN  IF r.kind = "return"
           THEN /\ aiInsight' = r.value
                /\ isAnalyzing' = FALSE
                /\ settled' = [state |-> "fulfilled", outcome |-> outcome,
                               value |-> r.value]
           ELSE /\ settled' = [state |-> "rejected", outcome |-> outcome,
                               value |-> NullInsight]
                /\ UNCHANGED <<aiInsight, isAnalyzing>>
    /\ UNCHANGED <<transactions, timeRange, now, tz, nextId, app, storage>>

\* the close button of the insight panel
dismissInsight ==
    /\ app = "running"
    /\ aiInsight # NullInsight
    /\ aiInsight' = NullInsight
    /\ UNCHANGED <<transactions, timeRange, now, tz, nextId, app, storage,
                   isAnalyzing, pending, settled>>

Next ==
    \/ \E f \in Forms : handleAddTransaction(f)
    \/ \E id \in 1..MaxId, confirmed \in BOOLEAN : deleteTransaction(id, confirmed)
    \/ \E range \in TimeTabs : setTimeRange(range)
    \/ showAllHistory

\* one session of the application, from its first construction
Spec == Init /\ [][Next]_vars

\* the insight requests of one session, over a short history of adds
InsightForms ==
    { FormWith(INCOME, "Rental", "1000", Date(2024, 3, 1), "Reserva", "Ana Souza"),
      Form(EXPENSE, "Maintenance", "200", Date(2023, 3, 1)) }

InitInsight ==
    /\ Init
    /\ now = Date(2024, 3, 15)
    /\ tz = 0

NextInsight ==
    \/ \E f \in InsightForms : nextId <= MaxEntries /\ handleAddTransaction(f)
    \/ \E range \in TimeTabs : setTimeRange(range)
    \/ showAllHistory
    \/ fetchAiInsights
    \/ \E i \in 1..MaxPending, outcome \in ServiceOutcomes :
          generateContentSettles(i, outcome)
    \/ dismissInsight

SpecInsight == InitInsight /\ [][NextInsight]_vars

\* one session in which operations fail: submissions that are rejected,
\* deletes that are declined, insight requests that the service fails
InitFailures ==
    /\ Init
    /\ now = Date(2024, 3, 15)
    /\ tz = 0

NextFailures ==
    \/ \E f \in InsightForms \cup InvalidForms :
          nextId <= MaxEntries /\ handleAddTransaction(f)
    \/ \E id \in 1..MaxEntries, confirmed \in BOOLEAN :
          deleteTransaction(id, confirmed)
    \/ fetchAiInsights
    \/ \E i \in 1..MaxPending, outcome \in ServiceOutcomes :
          generateContentSettles(i, outcome)

SpecFailures == InitFailures /\ [][NextFailures]_vars

\* one session in which the date input can be cleared before a submit. The
\* dates that are kept are all the same day: with two different days and
\* an Invalid Date the comparator is not consistent and the order sort
\* produces is implementation-defined.
DateForms ==
    { Form(INCOME,  "Rental",   "1000", Date(2024, 3, 1)),
      Form(EXPENSE, "Cleaning", "200",  Date(2024, 3, 1)),
      Form(EXPENSE, "Others",   "300",  BlankDate),
      Form(INCOME,  "Rental",   "500",  BlankDate) }

InitDates ==
    /\ Init
    /\ now = Date(2024, 3, 15)
    /\ tz = 0

NextDates ==
    \/ \E f \in DateForms : handleAddTransaction(f)
    \/ \E id \in 1..MaxId, confirmed \in BOOLEAN : deleteTransaction(id, confirmed)
    \/ \E range \in TimeTabs : setTimeRange(range)
    \/ showAllHistory

SpecDates == InitDates /\ [][NextDates]_vars

\* Startup on whatever localStorage holds: nothing, an empty text, a text
\* that is not JSON, or the array written by an earlier session
StoredSessions ==
    { <<NewTransaction(1, Form(EXPENSE, "Utilities", "300", Date(2024, 7, 1)))>>,
      <<NewTransaction(2, FormWith(INCOME, "Rental", "1000", Date(2024, 3, 1),
                                   "Reserva", "Ana Souza")),
        NewTransaction(1, Form(EXPENSE, "Maintenance", "200", Date(2023, 3, 1)))>> }

StartupStorages ==
    {StorageNull, StorageEmptyText, StorageMalformed}
      \cup {JSONstringify(txs) : txs \in StoredSessions}

InitStartup ==
    /\ app = "unmounted"
    /\ storage \in StartupStorages
    /\ transactions = <<>>
    /\ timeRange = "monthly"
    /\ now = Date(2024, 3, 15)
    /\ tz = 0
    /\ nextId = Len(storage.value) + 1
    /\ isAnalyzing = FALSE
    /\ aiInsight = NullInsight
    /\ pending = <<>>
    /\ settled = NotSettled

NextStartup ==
    \/ mount
    \/ reload
    \/ Next

\* sessions of the application over the life of the stored item
SpecStartup == InitStartup /\ [][NextStartup]_vars

TypeOK ==
    /\ app \in {"unmounted", "running", "crashed"}
    /\ isAnalyzing \in BOOLEAN
    /\ timeRange \in TimeRanges
    /\ nextId \in 1..(MaxId + 1)
    /\ Len(transactions) <= MaxId
    /\ \A i \in 1..Len(transactions) :
          /\ transactions[i].type \in TransactionTypes
          /\ transactions[i].category \in Categories

-----------------------------------------------------------------------------
(* Reference definitions used to state the properties *)

Elems(s) == {s[i] : i \in 1..Len(s)}

RECURSIVE TotalAt(_, _)
\* sum of the amounts of s at the indices I
TotalAt(s, I) ==
    IF I = {} THEN 0
    ELSE LET i == CHOOSE j \in I : TRUE
         IN  s[i].amount + TotalAt(s, I \ {i})

IncomeOf(s) == TotalAt(s, {i \in 1..Len(s) : s[i].type = INCOME})
ExpensesOf(s) == TotalAt(s, {i \in 1..Len(s) : s[i].type = EXPENSE})

\* some delete has been confirmed: ids were handed out that are gone
SomeDeleted == nextId - 1 > Len(transactions)

\* equality and zero test of fractions
FracEq(a, b) ==
    IF a.den = b.den THEN a.num = b.num ELSE a.num * b.den = b.num * a.den

IsZero(q) == q.num = 0 /\ q.den # 0

-----------------------------------------------------------------------------
(* Properties *)

\* C1: in every reachable state (any sequence of adds, deletes and period
\* changes) summary.income is the sum of the Income amounts of the filtered
\* set, summary.expenses the sum of its Expense amounts, and
\* summary.balance = summary.income - summary.expenses.
C1_BalanceIsIncomeMinusExpenses ==
    LET ft == filteredTransactions
        sm == Summary(ft)
    IN  /\ sm.income = IncomeOf(ft)
        /\ sm.expenses = ExpensesOf(ft)
        /\ sm.balance = sm.income - sm.expenses

\* a filtered set with income and expenses, under a period other than the
\* initial one, after a delete
C1_Witness ==
    /\ IncomeOf(filteredTransactions) > 0
    /\ ExpensesOf(filteredTransactions) > 0
    /\ Len(filteredTransactions) < Len(transactions)
    /\ timeRange = "semiannual"
    /\ SomeDeleted

\* C2: summary.margin = balance / income * 100 when income > 0, and is 0
\* when income is 0 whatever the expenses; income 1000 and expenses 200
\* give 80.
C2_Margin ==
    LET ft       == filteredTransactions
        margin   == Summary(ft).margin
        income   == IncomeOf(ft)
        expenses == ExpensesOf(ft)
    IN  /\ income > 0 =>
              /\ margin.den # 0
              /\ FracEq(margin, Frac((income - expenses) * 100, income))
        /\ income = 0 => IsZero(margin)
        /\ (income = 1000 /\ expenses = 200) => FracEq(margin, Frac(80, 1))

\* no income but expenses in the filtered set
C2_Witness ==
    /\ IncomeOf(filteredTransactions) = 0
    /\ ExpensesOf(filteredTransactions) > 0

\* the scenario of the margin: income 1000, expenses 200
C2_Scenario ==
    /\ IncomeOf(filteredTransactions) = 1000
    /\ ExpensesOf(filteredTransactions) = 200
    /\ timeRange = "monthly"

\* the period of the selector, read on the calendar dates as written
CalendarMatches(t, range, n) ==
    CASE range = "monthly"    -> t.date.y = n.y /\ t.date.m = n.m
      [] range = "semiannual" -> t.date.y = n.y /\ (t.date.m <= 6) = (n.m <= 6)
      [] range = "annual"     -> t.date.y = n.y
      [] range = "all"        -> TRUE

\* C3: the period filter returns exactly the transactions whose date has
\* the calendar year and month of the current date (monthly), its year and
\* half-year (semiannual), its year (annual), or all of them (all): none
\* that matches is dropped, none that does not match is included.
C3_FilterMatchesCalendar ==
    LET ft == filteredTransactions
    IN  /\ Elems(ft) = {t \in Elems(transactions) : CalendarMatches(t, timeRange, now)}
        /\ Cardinality(Elems(ft)) = Len(ft)

\* C4: the period filter is idempotent: filtering its own output again,
\* with the same selector and current date, gives the same transactions in
\* the same order.
C4_FilterIdempotent ==
    LET ft == filteredTransactions
    IN  PeriodFilter(ft, timeRange, now, tz) = ft

\* the filter dropped something and kept two transactions of the same date
C4_Witness ==
    /\ Len(filteredTransactions) < Len(transactions)
    /\ \E i, j \in 1..Len(filteredTransactions) :
          i # j /\ filteredTransactions[i].date = filteredTransactions[j].date

\* C5: when the filtered set is empty, the summary is all zeros and the
\* category breakdown, the top expenses, the balance evolution and the
\* flow chart buckets are empty sequences.
C5_EmptyDegradesToZero ==
    LET ft == filteredTransactions
        sm == Summary(ft)
    IN  ft = <<>> =>
            /\ sm.income = 0
            /\ sm.expenses = 0
            /\ sm.balance = 0
            /\ IsZero(sm.margin)
            /\ ChartData(ft) = <<>>
            /\ TopExpenses(ft) = <<>>
            /\ BalanceEvolutionData(ft, tz) = <<>>
            /\ MonthlyData(ft, timeRange, tz) = <<>>

\* no transaction of a non-empty collection matches the selected period
C5_Witness ==
    /\ transactions # <<>>
    /\ filteredTransactions = <<>>
    /\ timeRange = "annual"

PointIndex(series, key) == CHOOSE i \in 1..Len(series) : series[i].name = key

\* signed total of the transactions of s dated on or before dt
RunningTotal(s, dt) ==
    LET upTo == {i \in 1..Len(s) : getTime(s[i].date) <= getTime(dt)}
    IN  TotalAt(s, {i \in upTo : s[i].type = INCOME})
          - TotalAt(s, {i \in upTo : s[i].type = EXPENSE})

\* C6: for a non-empty filtered set, under every selector, the last point
\* of the balance evolution has the value summary.balance, and the points
\* follow the date order of the transactions they stand for.
C6_SeriesEndsAtBalance ==
    LET ft     == filteredTransactions
        series == BalanceEvolutionData(ft, tz)
    IN  ft # <<>> =>
            /\ series # <<>>
            /\ series[Len(series)].value = Summary(ft).balance
            /\ \A a, b \in Elems(ft) :
                  getTime(a.date) <= getTime(b.date) =>
                      PointIndex(series, DayMonthLabel(a.date, tz))
                        <= PointIndex(series, DayMonthLabel(b.date, tz))

\* C7: the balance evolution has exactly one point per distinct calendar
\* date of the filtered set, and the point of date d has the signed
\* running total of the filtered transactions dated on or before d.
C7_OnePointPerDate ==
    LET ft     == filteredTransactions
        series == BalanceEvolutionData(ft, tz)
    IN  /\ Len(series) = Cardinality({t.date : t \in Elems(ft)})
        /\ \A t \in Elems(ft) :
              series[PointIndex(series, DayMonthLabel(t.date, tz))].value
                = RunningTotal(ft, t.date)

ExpenseCategories(s) == {t.category : t \in {x \in Elems(s) : x.type = EXPENSE}}

\* C8: the top expenses are the first min(3, number of expense categories)
\* entries of the category breakdown: same names, same values, same order.
C8_TopIsPrefixOfBreakdown ==
    LET ft  == filteredTransactions
        top == TopExpenses(ft)
        cd  == ChartData(ft)
        n   == Cardinality(ExpenseCategories(ft))
    IN  /\ Len(top) = (IF n < 3 THEN n ELSE 3)
        /\ Len(top) <= Len(cd)
        /\ \A i \in 1..Len(top) :
              /\ top[i].name = cd[i].name
              /\ top[i].value = cd[i].value

\* four categories, the third and the fourth with equal sums
C8_Witness ==
    /\ Len(chartData) = 4
    /\ Len(topExpenses) = 3
    /\ chartData[3].value = chartData[4].value

RECURSIVE SumFracs(_)
\* sum of fractions of one denominator
SumFracs(qs) ==
    IF qs = <<>> THEN Frac(0, 1)
    ELSE LET rest == SumFracs(Tail(qs))
         IN  IF rest.num = 0 THEN Head(qs)
             ELSE Frac(Head(qs).num + rest.num, Head(qs).den)

RECURSIVE SumValues(_)
SumValues(entries) ==
    IF entries = <<>> THEN 0 ELSE Head(entries).value + SumValues(Tail(entries))

\* C9: when the expenses of the filtered set are positive, the percentages
\* value / summary.expenses * 100 of the categories of the breakdown sum to
\* 100, and the category sums add up to summary.expenses.
C9_PercentsSumTo100 ==
    LET ft       == filteredTransactions
        expenses == Summary(ft).expenses
        cd       == ChartData(ft)
        percents == CategoryPercents(cd, expenses)
    IN  expenses > 0 =>
            /\ \A i \in 1..Len(percents) : percents[i].den = expenses
            /\ FracEq(SumFracs(percents), Frac(100, 1))
            /\ SumValues(cd) = expenses

\* three categories or more, one of them entered twice, and a share that
\* is not a whole percent
C9_Witness ==
    /\ summary.expenses > 0
    /\ Len(chartData) >= 3
    /\ \E i \in 1..Len(chartData) : (chartData[i].value * 100) % summary.expenses # 0
    /\ \E i, j \in 1..Len(filteredTransactions) :
          /\ i # j
          /\ filteredTransactions[i].type = EXPENSE
          /\ filteredTransactions[j].type = EXPENSE
          /\ filteredTransactions[i].category = filteredTransactions[j].category

\* C10: the category breakdown has one entry per category with an Expense
\* in the filtered set, valued the sum of the amounts of those Expense
\* transactions only, and its entries are in descending order of value.
C10_Breakdown ==
    LET ft   == filteredTransactions
        cd   == ChartData(ft)
        cats == ExpenseCategories(ft)
    IN  /\ {cd[i].name : i \in 1..Len(cd)} = cats
        /\ Len(cd) = Cardinality(cats)
        /\ \A i \in 1..Len(cd) :
              cd[i].value =
                TotalAt(ft, {j \in 1..Len(ft) :
                               ft[j].type = EXPENSE /\ ft[j].category = cd[i].name})
        /\ \A i \in 1..(Len(cd) - 1) : cd[i].value >= cd[i + 1].value

\* an Income and an Expense of one category in the filtered set, and a
\* breakdown that the sort had to reorder
C10_Witness ==
    /\ \E a, b \in Elems(filteredTransactions) :
          a.type = INCOME /\ b.type = EXPENSE /\ a.category = b.category
    /\ chartData # CategoryTotals(SelectSeqBy(filteredTransactions, EXPENSE))
    /\ Len(chartData) >= 2

\* C11: when the insight requester is invoked with an empty transaction
\* sequence, the text it returns (shown in the panel) is the fixed
\* insufficient-data message, and the invocation adds no call of the
\* text-generation service.
C11_EmptyShortCircuits ==
    [][(fetchAiInsights /\ Len(filteredTransactions) = 0)
          => (aiInsight' = InsufficientData /\ pending' = pending)]_vars

\* the message is shown for a period that holds nothing although the
\* collection is not empty, and no call is awaited
C11_Witness ==
    /\ aiInsight = InsufficientData
    /\ settled.state = "fulfilled"
    /\ settled.outcome.kind = "none"
    /\ Len(transactions) > 0
    /\ Len(filteredTransactions) = 0
    /\ pending = <<>>

\* C12: when the call of the service fails and the requester returns, it
\* returns the overloaded-service message if and only if the failure is a
\* rate-limit (429) failure; for any other failure it returns the generic
\* unavailable message.
C12_OverloadedIffRateLimit ==
    (settled.state = "fulfilled" /\ settled.outcome.kind = "throw")
        => /\ (settled.value = Overloaded) <=> (settled.outcome.status = 429)
           /\ settled.outcome.status # 429 => settled.value.kind = "unavailable"

\* C13: whatever the service does with a call, getFinancialInsights returns
\* a text: its promise is never rejected.
C13_NoExceptionEscapes == settled.state # "rejected"

\* C14: submitting the form with an amount that is missing, not a number,
\* zero or negative leaves the collection and the stored item unchanged.
C14_InvalidAmountCreatesNothing ==
    [][\A f \in InvalidForms :
          handleAddTransaction(f) => UNCHANGED <<transactions, storage>>]_vars

\* a state in which such a submission can be made, with a collection and a
\* stored item that an accepted submission would have changed
C14_Witness ==
    /\ app = "running"
    /\ nextId <= MaxId
    /\ Len(transactions) >= 1
    /\ storage.kind = "array"
    /\ Len(storage.value) = Len(transactions)

\* C15: every transaction of the collection has an amount greater than 0.
C15_AmountsPositive ==
    \A i \in 1..Len(transactions) : transactions[i].amount > 0

\* a collection loaded from the stored item and then changed by adds and
\* by a confirmed delete
C15_Witness ==
    /\ app = "running"
    /\ Len(transactions) = 3
    /\ SomeDeleted
    /\ \E t \in Elems(transactions) :
          t = NewTransaction(1, Form(EXPENSE, "Utilities", "300", Date(2024, 7, 1)))

\* C16: when the page is opened with no stored item, or with a stored item
\* that is not JSON, the application runs with an empty collection.
C16_StartsEmptyOnBadStorage ==
    [][(app = "unmounted" /\ storage.kind \in {"null", "malformed"})
          => (app' = "running" /\ transactions' = <<>>)]_vars

\* C17: while the application runs, the stored item is the serialization of
\* the collection, and a reload gives the same collection in the same order.
C17_StorageMirrorsCollection ==
    /\ [](app = "running" =>
            /\ storage = JSONstringify(transactions)
            /\ JSONparse(storage) = transactions)
    /\ [][(app = "running" /\ reload)
            => (app' = "running" /\ transactions' = transactions)]_vars

\* adds and a confirmed delete have been made, the collection holds an
\* Income (guestName stored) and an Expense (guestName left out), and the
\* period shown is not the whole collection
C17_Witness ==
    /\ app = "running"
    /\ SomeDeleted
    /\ \E a, b \in Elems(transactions) : a.type = INCOME /\ b.type = EXPENSE
    /\ Len(filteredTransactions) < Len(transactions)
    /\ Len(storage.value) = Len(transactions)

\* C18: the ids of the collection are pairwise distinct, and no step gives
\* a transaction the id another transaction of the collection had: each
\* transaction after the step is one of before, unchanged, or has a new id.
C18_IdsUniqueAndStable ==
    /\ [](\A i, j \in 1..Len(transactions) :
             transactions[i].id = transactions[j].id => i = j)
    /\ [][\A t \in Elems(transactions') :
             \/ t \in Elems(transactions)
             \/ \A u \in Elems(transactions) : u.id # t.id]_vars

\* every id has been handed out, and a transaction has been deleted and
\* others added after it
C18_Witness ==
    /\ app = "running"
    /\ nextId = MaxId + 1
    /\ SomeDeleted
    /\ Len(transactions) >= 2

\* a >= b on the instants of two dates; false when one is an Invalid Date
DateGeq(a, b) ==
    /\ ~IsInvalidDate(a)
    /\ ~IsInvalidDate(b)
    /\ getTime(a) >= getTime(b)

\* C19: of two consecutive elements of filteredTransactions, the first has
\* a date later than or equal to the date of the second.
C19_FilterDescending ==
    LET ft == filteredTransactions
    IN  \A i \in 1..(Len(ft) - 1) : DateGeq(ft[i].date, ft[i + 1].date)

\* C20: at most one call of the text-generation service is awaited at any
\* time.
C20_AtMostOneInFlight == Len(pending) <= 1

\* C21: a rejected add submission, a declined delete confirmation and an
\* insight request that the service fails each leave the collection as it
\* was before the operation.
C21_FailuresKeepCollection ==
    [][/\ \A f \in InvalidForms :
             handleAddTransaction(f) => transactions' = transactions
       /\ \A id \in 1..MaxId :
             deleteTransaction(id, FALSE) => transactions' = transactions
       /\ \A i \in 1..MaxPending, outcome \in ServiceOutcomes :
             (outcome.kind = "throw" /\ generateContentSettles(i, outcome))
                => transactions' = transactions]_vars

\* an insight request has failed while the collection held a transaction,
\* after a confirmed delete
C21_Witness ==
    /\ settled.state # "none"
    /\ settled.outcome.kind = "throw"
    /\ Len(transactions) >= 1
    /\ SomeDeleted

\* C22: a transaction leaves the collection only in a confirmed delete; a
\* confirmed delete of id x removes exactly the transactions whose id is x
\* and keeps the others in their order; a declined delete changes nothing.
C22_OnlyConfirmedDeleteRemoves ==
    [][/\ (\E t \in Elems(transactions) : t \notin Elems(transactions'))
             => \E id \in 1..MaxId : deleteTransaction(id, TRUE)
       /\ \A id \in 1..MaxId :
             deleteTransaction(id, TRUE)
                => transactions' = SelectSeq(transactions, LAMBDA t : t.id # id)
       /\ \A id \in 1..MaxId :
             deleteTransaction(id, FALSE) => transactions' = transactions]_vars

\* a transaction has been deleted from between two that are kept
C22_Witness ==
    /\ app = "running"
    /\ \E k \in 1..MaxId :
          /\ \A t \in Elems(transactions) : t.id # k
          /\ \E a, b \in Elems(transactions) : a.id < k /\ k < b.id

\* C23: an add with an amount greater than 0 puts one new transaction at
\* the front of the collection, built from the form and with an id no other
\* has, and keeps the transactions of before unchanged and in their order.
C23_ValidAddPrepends ==
    [][\A f \in ValidForms :
          handleAddTransaction(f)
             => /\ Len(transactions') = Len(transactions) + 1
                /\ Tail(transactions') = transactions
                /\ LET t == Head(transactions')
                   IN  /\ t.type = f.type
                       /\ t.category = f.category
                       /\ t.date = f.date
                       /\ t.description = f.desc
                       /\ t.amount > 0
                       /\ \A u \in Elems(transactions) : u.id # t.id]_vars

\* the last transaction added is at the front of a collection of three
C23_Witness ==
    /\ app = "running"
    /\ Len(transactions) >= 3
    /\ transactions[1].id = nextId - 1

\* C24: a transaction has a guestName only if its type is Income, and its
\* isPaid is true.
C24_GuestOnlyOnIncome ==
    \A i \in 1..Len(transactions) :
        /\ transactions[i].guestName # Undefined => transactions[i].type = INCOME
        /\ transactions[i].isPaid = TRUE

\* an Expense added from a form in which a guest name had been typed, and
\* an Income that carries its guest name
C24_Witness ==
    /\ \E t \in Elems(transactions) :
          /\ t = NewTransaction(t.id, FormWith(EXPENSE, "Cleaning", "200",
                                               Date(2024, 3, 15), "", "Ana Souza"))
          /\ t.guestName = Undefined
    /\ \E t \in Elems(transactions) :
          t.type = INCOME /\ t.guestName = Some("Ana Souza")

\* the calendar period a bucket of the flow chart stands for: the day (in
\* the local zone) under monthly, the month of a year under the others
BucketPeriod(t, range, zone) ==
    LET local == LocalFields(t.date, zone)
    IN  IF range = "monthly" THEN <<local.y, local.m, local.d>>
        ELSE <<local.y, local.m>>

RECURSIVE SumBuckets(_, _)
\* sum of one field ("income" or "expense") over the buckets
SumBuckets(md, field) ==
    IF md = <<>> THEN 0
    ELSE md[1][field] + SumBuckets(Tail(md), field)

\* C25: the flow chart has one bucket per calendar day (monthly) or per
\* calendar month of a year (other selectors) that has a filtered
\* transaction; a bucket's income and expense are the sums of the Income
\* and Expense amounts of that day or month; the bucket incomes total
\* summary.income and the bucket expenses total summary.expenses.
C25_BucketsByCalendarPeriod ==
    LET ft == filteredTransactions
        md == MonthlyData(ft, timeRange, tz)
        periods == {BucketPeriod(t, timeRange, tz) : t \in Elems(ft)}
        InPeriod(p, type) ==
            {j \in 1..Len(ft) :
                BucketPeriod(ft[j], timeRange, tz) = p /\ ft[j].type = type}
    IN  /\ Len(md) = Cardinality(periods)
        /\ \A p \in periods :
              \E i \in 1..Len(md) :
                 /\ md[i].income = TotalAt(ft, InPeriod(p, INCOME))
                 /\ md[i].expense = TotalAt(ft, InPeriod(p, EXPENSE))
        /\ SumBuckets(md, "income") = Summary(ft).income
        /\ SumBuckets(md, "expense") = Summary(ft).expenses

\* the key monthlyData gives a transaction
BucketKey(t, range, zone) ==
    IF range = "monthly" THEN DayMonthLabel(t.date, zone)
    ELSE MonthLabel(t.date, zone)

\* the least index of the filtered list whose transaction has the key
FirstSeen(ft, key, range, zone) ==
    CHOOSE i \in 1..Len(ft) :
        /\ BucketKey(ft[i], range, zone) = key
        /\ \A j \in 1..(i - 1) : BucketKey(ft[j], range, zone) # key

\* C26: the buckets of the flow chart come in the order in which their keys
\* first occur in filteredTransactions.
C26_BucketsInFirstSeenOrder ==
    LET ft == filteredTransactions
        md == MonthlyData(ft, timeRange, tz)
    IN  /\ {md[i].name : i \in 1..Len(md)} =
              {BucketKey(t, timeRange, tz) : t \in Elems(ft)}
        /\ \A i, j \in 1..Len(md) :
              i < j => FirstSeen(ft, md[i].name, timeRange, tz)
                          < FirstSeen(ft, md[j].name, timeRange, tz)

\* month buckets of one year, later months before earlier ones, one of
\* them holding two transactions
C26_Witness ==
    LET md == monthlyData
    IN  /\ timeRange = "annual"
        /\ Len(md) >= 2
        /\ \A i \in 1..(Len(md) - 1) : md[i].name[1] > md[i + 1].name[1]
        /\ Len(filteredTransactions) > Len(md)

\* C27: isAnalyzing is true whenever at least one call of the service is
\* still awaited: it is never false while a request is in flight.
C27_AnalyzingWhileOutstanding == Len(pending) > 0 => isAnalyzing

\* C28: whenever the service answers an awaited call, whether with a text
\* or with a failure, fetchAiInsights ends with isAnalyzing false and
\* aiInsight a text.
C28_AnswerEndsAnalyzing ==
    [][\A i \in 1..MaxPending, outcome \in ServiceOutcomes :
          generateContentSettles(i, outcome)
             => (isAnalyzing' = FALSE /\ aiInsight' # NullInsight)]_vars

\* C29: once no call is awaited, a generated insight on display answers a
\* request made for the period that is currently selected.
C29_InsightMatchesSelection ==
    (pending = <<>> /\ aiInsight.kind = "generated")
        => aiInsight.prompt.period = rangeLabels[timeRange]

====
